---- MODULE Spec2Model ----
(***************************************************************************)
(* Journal file format (db/dur_journalformat.h) and the page-aligned       *)
(* buffer builder (util/alignedbuilder.h).                                 *)
(*                                                                         *)
(* Records are modelled by the bytes they hold on disk (#pragma pack(1),   *)
(* little-endian fields), so that corrupting one byte is a state change.   *)
(* Four specifications, one per object:                                    *)
(*   SpecHdr    JHeader: valid() and versionOk()                           *)
(*   SpecEntry  JEntry: the _fileNo field and its local-database bit       *)
(*   SpecSect   JSectHeader/JSectFooter: the section digest                *)
(*   SpecBuf    AlignedBuilder                                             *)
(***************************************************************************)
EXTENDS Integers, Sequences, FiniteSets

VARIABLES
    hdr,        \* JHeader: the bytes valid()/versionOk() read
    hdrOrig,    \* JHeader as it was written, before any corruption
    hdrHits,    \* number of bytes corrupted so far
    entry,      \* JEntry: the 4 bytes of little<int> _fileNo
    entrySet,   \* argument of the last setFileNo(), <<>> before the first
    entryOps,   \* number of set/clearLocalDbContextBit calls since
    sbuf,       \* section bytes: JSectHeader, then the entries
    sorig,      \* the section bytes the footer was computed over
    footer,     \* the section's JSectFooter, <<>> until it is computed
    sectHits,   \* number of section bytes overwritten since
    ab,         \* AlignedBuilder: _len, _p and the bytes of the allocation
    abAppended, \* the bytes appended since construction or reset(), in order
    abPure,     \* no skip() since construction or reset()
    abPatches,  \* bytes written through atOfs(): <<offset, value, allocation then>>
    abReserved, \* regions reserved by skip(): <<offset, length>>
    abLast,     \* the last call: its name, its size argument (for reset(), the
                \* capacity it found), the offset returned, whether it threw
    abOps       \* number of calls so far

hdrVars == <<hdr, hdrOrig, hdrHits>>
entryVars == <<entry, entrySet, entryOps>>
sectVars == <<sbuf, sorig, footer, sectHits>>
abVars == <<ab, abAppended, abPure, abPatches, abReserved, abLast, abOps>>
vars == <<hdrVars, entryVars, sectVars, abVars>>

(***************************************************************************)
(* Bytes and little-endian fields                                          *)
(***************************************************************************)
LF == 10       \* '\n'
CharJ == 106   \* 'j'

\* byte values written by the corruption actions
ByteVals == {0, 1, LF, CharJ, 255}

\* little<T>: the value of the bytes b[1..Len(b)], least significant first
RECURSIVE LEValue(_)
LEValue(b) == IF b = <<>> THEN 0 ELSE b[1] + 256 * LEValue(Tail(b))

\* little<T>: the w bytes storing v >= 0, least significant first
RECURSIVE LEBytes(_, _)
LEBytes(v, w) == IF w = 0 THEN <<>> ELSE <<v % 256>> \o LEBytes(v \div 256, w - 1)

\* a little<T> field converted to bool: some byte of it is not zero (the 64-bit
\* value itself is never needed)
NonZero(b) == \E i \in DOMAIN b : b[i] # 0

\* bit k of byte b inverted
FlipBit(b, k) == IF (b \div (2 ^ k)) % 2 = 1 THEN b - 2 ^ k ELSE b + 2 ^ k

(***************************************************************************)
(* JHeader                                                                 *)
(***************************************************************************)
CurrentVersion == 16711   \* 0x4147

\* how many bytes of a header the corruption actions may change
MaxHits == 2

\* the fileId values a header is written with (0 is an invalid header)
FileIds == {0, 1, 256, 1234}

versionOk_lowbyte(h) == h.version[1] = CurrentVersion % 256

\* bool versionOk() const { return _version == CurrentVersion; }
versionOk(h) == LEValue(h.version) = CurrentVersion

valid_notrailer(h) == h.magic[1] = CharJ /\ NonZero(h.fileId)

\* bool valid() const { return magic[0] == 'j' && txt2[1] == '\n' && fileId; }
\* (magic[0] is h.magic[1]: sequences are 1-based)
valid(h) == h.magic[1] = CharJ /\ h.txt2[2] = LF /\ NonZero(h.fileId)

\* a header as the writer lays it out: magic "j\n", trailer "\n\n"
NewHeader(version, fileId) ==
    [magic   |-> <<CharJ, LF>>,
     version |-> LEBytes(version, 2),
     fileId  |-> LEBytes(fileId, 8),
     txt2    |-> <<LF, LF>>]

HdrIdle == /\ hdr = NewHeader(CurrentVersion, 1)
           /\ hdrOrig = hdr
           /\ hdrHits = 0

HdrInit == \E v \in {CurrentVersion, CurrentVersion - 1}, f \in FileIds :
              /\ hdr = NewHeader(v, f)
              /\ hdrOrig = hdr
              /\ hdrHits = 0

\* one byte of field fld overwritten with another value
CorruptByte(fld, n) ==
    /\ hdrHits < MaxHits
    /\ \E i \in 1..n, v \in ByteVals :
          /\ v # hdr[fld][i]
          /\ hdr' = [hdr EXCEPT ![fld][i] = v]
    /\ hdrHits' = hdrHits + 1
    /\ UNCHANGED <<hdrOrig, entryVars, sectVars, abVars>>

CorruptMagic == CorruptByte("magic", 2)
CorruptTrailer == CorruptByte("txt2", 2)
CorruptFileId == CorruptByte("fileId", 8)

\* one bit of the 16-bit _version field inverted
FlipVersionBit ==
    /\ hdrHits < MaxHits
    /\ \E k \in 0..15 :
          hdr' = [hdr EXCEPT !.version[(k \div 8) + 1] = FlipBit(@, k % 8)]
    /\ hdrHits' = hdrHits + 1
    /\ UNCHANGED <<hdrOrig, entryVars, sectVars, abVars>>

(***************************************************************************)
(* JEntry                                                                  *)
(***************************************************************************)
DotNsSuffix == 2147483647   \* 0x7fffffff

\* file numbers 0..MaxFileNo and DotNsSuffix-MaxFileNo..DotNsSuffix are tried
MaxFileNo == 30

FileNos == (0..MaxFileNo) \cup {DotNsSuffix - k : k \in 0..MaxFileNo} \cup {-1, -2}

\* the 4 bytes of a 32-bit two's-complement int, least significant first
Int32Bytes(f) ==
    IF f >= 0 THEN LEBytes(f, 4)
    ELSE LET m == (f + DotNsSuffix) + 1   \* f + 2^31, in 0..2^31-1
         IN  [LEBytes(m, 4) EXCEPT ![4] = @ + 128]

getFileNo_nomask(e) ==
    LET low == LEValue([e EXCEPT ![4] = @ % 128])
    IN  IF e[4] >= 128 THEN (low - DotNsSuffix) - 1 ELSE low

\* int getFileNo() const { return _fileNo & (~LocalDbBit); }
getFileNo(e) == LEValue([e EXCEPT ![4] = @ % 128])

\* bool isNsSuffix() const { return getFileNo() == DotNsSuffix; }
isNsSuffix(e) == getFileNo(e) = DotNsSuffix

\* bool isLocalDbContext() const { return _fileNo & LocalDbBit; }
isLocalDbContext(e) == e[4] >= 128

MaxEntryOps == 3

EntryIdle == /\ entry = <<0, 0, 0, 0>>
             /\ entrySet = <<>>
             /\ entryOps = 0

\* JEntry has no constructor: _fileNo starts with whatever the memory held
EntryInit == /\ entry \in {<<0, 0, 0, 0>>, <<255, 255, 255, 255>>, <<1, 0, 0, 128>>}
             /\ entrySet = <<>>
             /\ entryOps = 0

\* void setFileNo(int f) { _fileNo = f; }
setFileNo ==
    \E f \in FileNos :
        /\ entry' = Int32Bytes(f)
        /\ entrySet' = <<f>>
        /\ entryOps' = 0
        /\ UNCHANGED <<hdrVars, sectVars, abVars>>

\* void setLocalDbContextBit() { _fileNo |= LocalDbBit; }
setLocalDbContextBit ==
    /\ entryOps < MaxEntryOps
    /\ entry' = [entry EXCEPT ![4] = (@ % 128) + 128]
    /\ entryOps' = entryOps + 1
    /\ UNCHANGED <<entrySet, hdrVars, sectVars, abVars>>

\* void clearLocalDbContextBit() { _fileNo = getFileNo(); }
clearLocalDbContextBit ==
    /\ entryOps < MaxEntryOps
    /\ entry' = Int32Bytes(getFileNo(entry))
    /\ entryOps' = entryOps + 1
    /\ UNCHANGED <<entrySet, hdrVars, sectVars, abVars>>

(***************************************************************************)
(* JSectHeader, JSectFooter                                                *)
(***************************************************************************)
\* sizeof(JSectHeader) under #pragma pack(1): len 4 + seqNumber 8 + fileId 8
SizeofJSectHeader == 20

\* sizeof(JSectFooter): sentinel 4 + hash 16 + reserved 8 + magic 4
SizeofJSectFooter == 32

\* a section holds at most MaxBody bytes of entries
MaxBody == 3

\* how many section bytes the corruption action may overwrite
MaxSectHits == 2

\* byte values of the entries
BodyVals == {0, 104}

\* byte values the corruption action writes into a section
SectVals == {0, 255}

\* md5(data, len, digest): a 16-byte digest that is collision-free on the
\* byte strings of at most 15 bytes: the length, the bytes, zero padding
md5(data) == [i \in 1..16 |-> IF i = 1 THEN Len(data)
                              ELSE IF i - 1 <= Len(data) THEN data[i - 1] ELSE 0]

\* the bytes begin[skip .. len-1] (offsets from 0)
Range(begin, skip, len) == SubSeq(begin, skip + 1, len)

JSectFooter_skiplen(begin, len) ==
    [sentinel |-> <<255, 255, 255, 255>>,
     hash     |-> md5(Range(begin, 4, len)),
     reserved |-> <<0, 0, 0, 0, 0, 0, 0, 0>>,
     magic    |-> <<LF, LF, LF, LF>>]

\* JSectFooter(const void* begin, int len): the digest is taken over the bytes
\* after the section header
JSectFooter(begin, len) ==
    [sentinel |-> <<255, 255, 255, 255>>,   \* JEntry::OpCode_Footer
     hash     |-> md5(Range(begin, SizeofJSectHeader, len)),
     reserved |-> <<0, 0, 0, 0, 0, 0, 0, 0>>,
     magic    |-> <<LF, LF, LF, LF>>]

checkHash_skipmore(f, begin, len) ==
    md5(Range(begin, SizeofJSectHeader + 1, len)) = f.hash

\* bool checkHash(const void* begin, int len) const
checkHash(f, begin, len) == md5(Range(begin, SizeofJSectHeader, len)) = f.hash

\* the section header's bytes
SectHeaderBytes(len, seqNumber, fileId) ==
    LEBytes(len, 4) \o LEBytes(seqNumber, 8) \o LEBytes(fileId, 8)

SectIdle == /\ sbuf = SectHeaderBytes(0, 1, 1)
            /\ sorig = <<>>
            /\ footer = <<>>
            /\ sectHits = 0

\* the writer reserves the header (len not known yet), then adds the entries
SectInit == /\ \E seq \in {1, 258}, fid \in {1234} :
                  sbuf = SectHeaderBytes(0, seq, fid)
            /\ sorig = <<>>
            /\ footer = <<>>
            /\ sectHits = 0

\* one more byte of entries is written
AppendBodyByte ==
    /\ footer = <<>>
    /\ Len(sbuf) < SizeofJSectHeader + MaxBody
    /\ \E v \in BodyVals : sbuf' = Append(sbuf, v)
    /\ UNCHANGED <<sorig, footer, sectHits, hdrVars, entryVars, abVars>>

\* the body is complete: JSectFooter f(buf, len)
ComputeFooter ==
    /\ footer = <<>>
    /\ footer' = <<JSectFooter(sbuf, Len(sbuf))>>
    /\ sorig' = sbuf
    /\ UNCHANGED <<sbuf, sectHits, hdrVars, entryVars, abVars>>

\* the header's len is patched once the footer is computed
PatchLen ==
    /\ footer # <<>>
    /\ sbuf' = LEBytes(Len(sbuf) + SizeofJSectFooter, 4) \o Range(sbuf, 4, Len(sbuf))
    /\ sbuf' # sbuf
    /\ UNCHANGED <<sorig, footer, sectHits, hdrVars, entryVars, abVars>>

\* one byte of the section (header or entries) is overwritten with another value
CorruptSectByte ==
    /\ footer # <<>>
    /\ sectHits < MaxSectHits
    /\ \E i \in 1..Len(sbuf), v \in SectVals :
          /\ v # sbuf[i]
          /\ sbuf' = [sbuf EXCEPT ![i] = v]
    /\ sectHits' = sectHits + 1
    /\ UNCHANGED <<sorig, footer, hdrVars, entryVars, abVars>>

(***************************************************************************)
(* Memory of an allocation: a sequence of runs <<count, byte>>, count > 0,  *)
(* adjacent runs holding different bytes, so that a 256 MiB allocation is a *)
(* few runs.                                                               *)
(***************************************************************************)
\* n bytes, all v
Fill(n, v) == IF n = 0 THEN <<>> ELSE << <<n, v>> >>

\* number of bytes
RECURSIVE RLen(_)
RLen(r) == IF r = <<>> THEN 0 ELSE r[1][1] + RLen(Tail(r))

\* a followed by b
RCat(a, b) ==
    IF a = <<>> THEN b
    ELSE IF b = <<>> THEN a
    ELSE IF a[Len(a)][2] = b[1][2]
         THEN SubSeq(a, 1, Len(a) - 1) \o << <<a[Len(a)][1] + b[1][1], b[1][2]>> >> \o Tail(b)
         ELSE a \o b

\* the first k bytes
RECURSIVE RTake(_, _)
RTake(r, k) ==
    IF k <= 0 \/ r = <<>> THEN <<>>
    ELSE IF r[1][1] <= k THEN <<r[1]>> \o RTake(Tail(r), k - r[1][1])
    ELSE << <<k, r[1][2]>> >>

\* all but the first k bytes
RECURSIVE RDrop(_, _)
RDrop(r, k) ==
    IF k <= 0 \/ r = <<>> THEN r
    ELSE IF r[1][1] <= k THEN RDrop(Tail(r), k - r[1][1])
    ELSE << <<r[1][1] - k, r[1][2]>> >> \o Tail(r)

\* the byte at offset i (from 0)
RECURSIVE RAt(_, _)
RAt(r, i) == IF i < r[1][1] THEN r[1][2] ELSE RAt(Tail(r), i - r[1][1])

\* memcpy(dst + ofs, src, RLen(src))
RWrite(dst, ofs, src) ==
    RCat(RCat(RTake(dst, ofs), src), RDrop(dst, ofs + RLen(src)))

\* a byte sequence as runs
RECURSIVE ToRuns(_)
ToRuns(b) == IF b = <<>> THEN <<>> ELSE RCat(Fill(1, b[1]), ToRuns(Tail(b)))

(***************************************************************************)
(* AlignedBuilder                                                          *)
(***************************************************************************)
Alignment_half == 8192 \div 2

\* static const unsigned Alignment = 8192;
Alignment == 8192

\* const unsigned sizeCap = 128*1024*1024;
sizeCap == 134217728

\* the maximum size of a document, 16 MiB
BSONObjMaxUserSize == 16777216

\* the builder holds at most MaxLen bytes
MaxLen == 268435456

\* at most MaxOps calls are made on a builder
MaxOps == 3

\* addresses malloc() may return, aligned or not
Addrs == {24577, 65536, 1000003}

\* what freshly allocated memory may hold
Garbage == {0, 205}

\* sizes a builder is constructed with
InitSizes == {4, 8192, 67108864}

\* mallocSelfAligned(sz): sz + Alignment - 1 bytes are allocated at p and _data is
\* the first multiple of Alignment at or after p; the sz bytes there hold g
mallocSelfAligned(sz, p, g) ==
    [_data              |-> ((p + Alignment - 1) \div Alignment) * Alignment,
     _allocationAddress |-> p,
     _size              |-> sz,
     mem                |-> Fill(sz, g)]

\* _malloc(sz)
_malloc(sz, p, g) == mallocSelfAligned(sz, p, g)

\* _realloc(newSize, oldLenInUse): a new aligned allocation, the bytes in use
\* copied into it, the old allocation freed
_realloc(b, newSize, oldLenInUse, p, g) ==
    LET n == _malloc(newSize, p, g)
    IN  [_len               |-> b._len,
         _data              |-> n._data,
         _allocationAddress |-> n._allocationAddress,
         _size              |-> n._size,
         mem                |-> RWrite(n.mem, 0, RTake(b.mem, oldLenInUse))]

\* the capacity growReallocate() picks: doubled until it holds need bytes
RECURSIVE GrownSize(_, _)
GrownSize(a, need) == IF a >= need THEN a ELSE GrownSize(2 * a, need)

\* growReallocate(oldLenInUse)
growReallocate(b, oldLenInUse, p, g) ==
    _realloc(b, GrownSize(b._size, b._len), oldLenInUse, p, g)

\* AlignedBuilder(unsigned init_size)
AlignedBuilder(init_size, p, g) ==
    LET n == _malloc(init_size, p, g)
    IN  [_len               |-> 0,
         _data              |-> n._data,
         _allocationAddress |-> n._allocationAddress,
         _size              |-> n._size,
         mem                |-> n.mem]

grow_norealloc(b, by, p, g) ==
    [b |-> [b EXCEPT !._len = b._len + by], pos |-> b._len]

\* char* grow(unsigned by): the builder afterwards and the offset from _data of
\* the returned write position; p and g are what malloc() returns if it is called
grow(b, by, p, g) ==
    LET oldlen == b._len
        b1     == [b EXCEPT !._len = oldlen + by]
    IN  [b   |-> IF b1._len > b1._size THEN growReallocate(b1, oldlen, p, g) ELSE b1,
         pos |-> oldlen]

\* template<class T> void append(T j) { copyLE( grow( sizeof(T) ), j ); }
\* appendChar and every appendNum overload, w being sizeof(T)
append(b, w, j, p, g) ==
    LET r == grow(b, w, p, g)
    IN  [r.b EXCEPT !.mem = RWrite(@, r.pos, ToRuns(LEBytes(j, w)))]

\* void appendBuf(const void *src, size_t len); appendStruct(s) is
\* appendBuf(&s, sizeof(T))
appendBuf(b, src, p, g) ==
    LET r == grow(b, RLen(src), p, g)
    IN  [r.b EXCEPT !.mem = RWrite(@, r.pos, src)]

appendStr_growfirst(b, str, includeEOO, p, g) ==
    LET len == RLen(str) + (IF includeEOO THEN 1 ELSE 0)
        r   == grow(b, len, p, g)
    IN  IF ~(len < BSONObjMaxUserSize)
        THEN [b |-> r.b, threw |-> TRUE]
        ELSE [b     |-> [r.b EXCEPT !.mem = RWrite(@, r.pos, RTake(RCat(str, Fill(1, 0)), len))],
              threw |-> FALSE]

\* void appendStr(const StringData &str, bool includeEOO): the builder afterwards
\* and whether the assert threw; str.data() ends with a 0 byte
appendStr(b, str, includeEOO, p, g) ==
    LET len == RLen(str) + (IF includeEOO THEN 1 ELSE 0)
    IN  IF ~(len < BSONObjMaxUserSize)
        THEN [b |-> b, threw |-> TRUE]
        ELSE LET r == grow(b, len, p, g)
             IN  [b     |-> [r.b EXCEPT !.mem = RWrite(@, r.pos, RTake(RCat(str, Fill(1, 0)), len))],
                  threw |-> FALSE]

skip_newlen(b, n, p, g) ==
    LET r == grow(b, n, p, g)
    IN  [b |-> r.b, ret |-> r.b._len]

\* size_t skip(unsigned n): the builder afterwards and the returned offset
skip(b, n, p, g) ==
    LET l == b._len
        r == grow(b, n, p, g)
    IN  [b |-> r.b, ret |-> l]

reset_capincluded(b, p, g) ==
    LET b1 == [b EXCEPT !._len = 0]
    IN  IF b1._size >= sizeCap THEN _realloc(b1, sizeCap, b1._len, p, g) ELSE b1

\* void reset()
reset(b, p, g) ==
    LET b1 == [b EXCEPT !._len = 0]
    IN  IF b1._size > sizeCap THEN _realloc(b1, sizeCap, b1._len, p, g) ELSE b1

\* unsigned len() const
len(b) == b._len

\* const char* buf() const: the address, and the n bytes there
buf(b) == b._data
bufBytes(b, n) == RTake(b.mem, n)

\* *atOfs(ofs) = v
atOfsWrite(b, ofs, v) == [b EXCEPT !.mem = RWrite(@, ofs, Fill(1, v))]

NoCall == [op |-> "none", n |-> 0, ret |-> 0, threw |-> FALSE]

AbIdle == /\ ab = AlignedBuilder(4, 65536, 0)
          /\ abAppended = <<>>
          /\ abPure = TRUE
          /\ abPatches = {}
          /\ abReserved = {}
          /\ abLast = NoCall
          /\ abOps = 0

AbInit == /\ \E sz \in InitSizes, p \in Addrs, g \in Garbage :
                ab = AlignedBuilder(sz, p, g)
          /\ abAppended = <<>>
          /\ abPure = TRUE
          /\ abPatches = {}
          /\ abReserved = {}
          /\ abLast = NoCall
          /\ abOps = 0

\* a call that may allocate: what malloc() returns is not the live allocation
CanCall(by) == abOps < MaxOps /\ ab._len + by <= MaxLen
Fresh == Addrs \ {ab._allocationAddress}

\* the values and widths appendNum/appendChar are called with
Nums == {<<1, 7>>, <<4, 16711>>, <<8, 258>>}

AppendNum ==
    \E wj \in Nums, p \in Fresh, g \in Garbage :
        /\ CanCall(wj[1])
        /\ ab' = append(ab, wj[1], wj[2], p, g)
        /\ abAppended' = RCat(abAppended, ToRuns(LEBytes(wj[2], wj[1])))
        /\ abLast' = [NoCall EXCEPT !.op = "appendNum", !.n = wj[1]]
        /\ abOps' = abOps + 1
        /\ UNCHANGED <<abPure, abPatches, abReserved, hdrVars, entryVars, sectVars>>

\* the buffers appendBuf is called with
Bufs == {Fill(3, 104), Fill(104857600, 1)}

AppendBuf ==
    \E src \in Bufs, p \in Fresh, g \in Garbage :
        /\ CanCall(RLen(src))
        /\ ab' = appendBuf(ab, src, p, g)
        /\ abAppended' = RCat(abAppended, src)
        /\ abLast' = [NoCall EXCEPT !.op = "appendBuf", !.n = RLen(src)]
        /\ abOps' = abOps + 1
        /\ UNCHANGED <<abPure, abPatches, abReserved, hdrVars, entryVars, sectVars>>

\* appendStruct(JSectHeader)
AppendStruct ==
    \E p \in Fresh, g \in Garbage :
        LET src == ToRuns(SectHeaderBytes(0, 258, 1234))
        IN  /\ CanCall(RLen(src))
            /\ ab' = appendBuf(ab, src, p, g)
            /\ abAppended' = RCat(abAppended, src)
            /\ abLast' = [NoCall EXCEPT !.op = "appendStruct", !.n = RLen(src)]
            /\ abOps' = abOps + 1
            /\ UNCHANGED <<abPure, abPatches, abReserved, hdrVars, entryVars, sectVars>>

\* the lengths of the strings appendStr is called with
StrSizes == {5, BSONObjMaxUserSize - 1, BSONObjMaxUserSize}

AppendStr ==
    \E sz \in StrSizes, includeEOO \in BOOLEAN, p \in Fresh, g \in Garbage :
        LET str == Fill(sz, 97)
            n   == sz + (IF includeEOO THEN 1 ELSE 0)
            r   == appendStr(ab, str, includeEOO, p, g)
        IN  /\ CanCall(n)
            /\ ab' = r.b
            /\ abAppended' = IF r.threw THEN abAppended
                             ELSE RCat(abAppended, RCat(str, Fill(n - sz, 0)))
            /\ abLast' = [NoCall EXCEPT !.op = "appendStr", !.n = n, !.threw = r.threw]
            /\ abOps' = abOps + 1
            /\ UNCHANGED <<abPure, abPatches, abReserved, hdrVars, entryVars, sectVars>>

Skip ==
    \E n \in {4, 8192}, p \in Fresh, g \in Garbage :
        LET r == skip(ab, n, p, g)
        IN  /\ CanCall(n)
            /\ ab' = r.b
            /\ abReserved' = abReserved \cup {<<ab._len, n>>}
            /\ abPure' = FALSE
            /\ abLast' = [NoCall EXCEPT !.op = "skip", !.n = n, !.ret = r.ret]
            /\ abOps' = abOps + 1
            /\ UNCHANGED <<abAppended, abPatches, hdrVars, entryVars, sectVars>>

\* a byte is written through atOfs() into a region skip() reserved
AtOfs ==
    \E r \in abReserved, v \in {1, 255} :
        \E ofs \in {r[1], r[1] + r[2] - 1} :
            /\ abOps < MaxOps
            /\ ab' = atOfsWrite(ab, ofs, v)
            /\ abPatches' = {q \in abPatches : q[1] # ofs} \cup {<<ofs, v, ab._allocationAddress>>}
            /\ abLast' = [NoCall EXCEPT !.op = "atOfs", !.n = ofs]
            /\ abOps' = abOps + 1
            /\ UNCHANGED <<abAppended, abPure, abReserved, hdrVars, entryVars, sectVars>>

Reset ==
    \E p \in Fresh, g \in Garbage :
        /\ abOps < MaxOps
        /\ ab' = reset(ab, p, g)
        /\ abAppended' = <<>>
        /\ abPure' = TRUE
        /\ abPatches' = {}
        /\ abReserved' = {}
        /\ abLast' = [NoCall EXCEPT !.op = "reset", !.n = ab._size]
        /\ abOps' = abOps + 1
        /\ UNCHANGED <<hdrVars, entryVars, sectVars>>

(***************************************************************************)
(* Claims about JHeader                                                    *)
(***************************************************************************)
\* the byte positions <<field, index>> at which hdr differs from hdrOrig
HdrDiff == {p \in ({"magic", "version", "txt2"} \X (1..2)) \cup ({"fileId"} \X (1..8)) :
               hdr[p[1]][p[2]] # hdrOrig[p[1]][p[2]]}

\* the header as written passes valid(): magic "j\n", trailer ending in LF, fileId # 0
WrittenValid == /\ hdrOrig.magic = <<CharJ, LF>>
                /\ hdrOrig.txt2[2] = LF
                /\ NonZero(hdrOrig.fileId)

\* C2 as stated: valid() holds of every header with magic "j\n", a trailer ending
\* in a line feed and a nonzero fileId, and valid() is false once exactly one byte
\* of such a header is corrupted, that byte being magic[0], magic[1] or txt2[1].
C2_AnyMagicByteDetected ==
    /\ (hdr.magic = <<CharJ, LF>> /\ hdr.txt2[2] = LF /\ NonZero(hdr.fileId))
          => valid(hdr)
    /\ (WrittenValid /\ HdrDiff \in {{<<"magic", 1>>}, {<<"magic", 2>>}, {<<"txt2", 2>>}})
          => ~valid(hdr)

\* C2 amended: valid() holds of every header with magic "j\n", a trailer ending in
\* a line feed and a nonzero fileId; it is false once exactly one byte is corrupted,
\* that byte being magic[0] or txt2[1]; a corruption of magic[1] alone (like one of
\* txt2[0]) is not read by valid() and leaves it true.
C2_FirstMagicByteDetected ==
    /\ (hdr.magic = <<CharJ, LF>> /\ hdr.txt2[2] = LF /\ NonZero(hdr.fileId))
          => valid(hdr)
    /\ (WrittenValid /\ HdrDiff \in {{<<"magic", 1>>}, {<<"txt2", 2>>}})
          => ~valid(hdr)
    /\ (WrittenValid /\ HdrDiff \in {{<<"magic", 2>>}, {<<"txt2", 1>>}})
          => valid(hdr)

\* a valid header whose trailer's closing byte alone was corrupted
C2_Witness == WrittenValid /\ HdrDiff = {<<"txt2", 2>>} /\ ~valid(hdr)

\* C3: versionOk() is true exactly when the stored _version bytes are 0x47 0x41
\* (0x4147 little-endian), whatever the other fields hold; a header that differs
\* from the written one only in _version has the same valid() result, and if the
\* written version was current, versionOk() is false after the change.
C3_VersionIndependentOfValid ==
    /\ versionOk(hdr) <=> (hdr.version = <<71, 65>>)
    /\ (HdrDiff \subseteq {<<"version", 1>>, <<"version", 2>>})
          => (valid(hdr) <=> valid(hdrOrig))
    /\ (/\ versionOk(hdrOrig)
        /\ HdrDiff # {}
        /\ HdrDiff \subseteq {<<"version", 1>>, <<"version", 2>>})
          => ~versionOk(hdr)

\* Scenario A: a valid, current header after one bit of _version's high byte flipped
C3_Witness == /\ WrittenValid /\ versionOk(hdrOrig)
              /\ hdrHits = 1 /\ HdrDiff = {<<"version", 2>>}
              /\ valid(hdr) /\ ~versionOk(hdr)

(***************************************************************************)
(* Claims about JEntry                                                     *)
(***************************************************************************)
\* C4: after setFileNo(f) with f in 0..0x7fffffff and any sequence of
\* setLocalDbContextBit()/clearLocalDbContextBit() calls, getFileNo() is f, and
\* isNsSuffix() is true exactly when f is 0x7fffffff, whatever the high bit is.
C4_FileNoSurvivesLocalDbBit ==
    (entrySet # <<>> /\ entrySet[1] >= 0)
       => /\ getFileNo(entry) = entrySet[1]
          /\ isNsSuffix(entry) <=> (entrySet[1] = DotNsSuffix)

\* the ".ns" sentinel stored, the bit set, cleared and set again
C4_Witness == /\ entrySet = <<DotNsSuffix>>
              /\ entryOps = 3
              /\ isLocalDbContext(entry)
              /\ isNsSuffix(entry)

(***************************************************************************)
(* Claims about the section digest                                         *)
(***************************************************************************)
\* the offsets (from 0) at which sbuf differs from the bytes the footer was made of
SectDiff == {i \in 0..(Len(sbuf) - 1) : sbuf[i + 1] # sorig[i + 1]}

\* C1: a footer made by JSectFooter(b, n), n >= sizeof(JSectHeader), passes
\* checkHash(b, n) on the unmodified bytes and fails checkHash(b', n) for every b'
\* that differs from b in exactly one byte at an offset in 20..n-1.
C1_HashDetectsOneByte ==
    footer # <<>> =>
       /\ checkHash(footer[1], sorig, Len(sorig))
       /\ \A i \in 20..(Len(sbuf) - 1) :
             SectDiff = {i} => ~checkHash(footer[1], sbuf, Len(sbuf))

\* Scenario B: the last byte of the entries flipped after the footer is computed
C1_Witness == /\ footer # <<>>
              /\ Len(sbuf) = SizeofJSectHeader + MaxBody
              /\ SectDiff = {Len(sbuf) - 1}
              /\ ~checkHash(footer[1], sbuf, Len(sbuf))

\* C10: a step that keeps the footer, the length and every byte from offset 20 on
\* (whatever it does to the 20 header bytes) changes neither the result of
\* checkHash nor the digest JSectFooter computes.
C10_HeaderOutsideDigest ==
    [][(/\ footer # <<>>
        /\ footer' = footer
        /\ Len(sbuf') = Len(sbuf)
        /\ Range(sbuf', SizeofJSectHeader, Len(sbuf)) = Range(sbuf, SizeofJSectHeader, Len(sbuf)))
        => /\ checkHash(footer[1], sbuf', Len(sbuf')) = checkHash(footer[1], sbuf, Len(sbuf))
           /\ JSectFooter(sbuf', Len(sbuf')).hash = JSectFooter(sbuf, Len(sbuf)).hash]_vars

\* len patched and a seqNumber byte overwritten after the footer was computed:
\* the check still passes
C10_Witness == /\ footer # <<>>
               /\ Len(sbuf) > SizeofJSectHeader
               /\ SectDiff = {0, 4}
               /\ checkHash(footer[1], sbuf, Len(sbuf))

(***************************************************************************)
(* Claims about AlignedBuilder                                             *)
(***************************************************************************)
\* C5: after any sequence of appends (appendNum, appendChar, appendBuf,
\* appendStruct, appendStr) totalling N bytes since construction or reset(),
\* reallocations included, len() is N, the capacity is at least N, and the first
\* N bytes of buf() are the appended bytes in order.
C5_AppendsPreserved ==
    abPure => /\ len(ab) = RLen(abAppended)
              /\ ab._size >= RLen(abAppended)
              /\ bufBytes(ab, RLen(abAppended)) = abAppended

\* appendNum of the byte 7, then two more appends, the last one an appendBuf of
\* 100 MiB that reallocated: the first byte is still there
C5_Witness == /\ abPure /\ abOps = 3
              /\ abLast.op = "appendBuf"
              /\ len(ab) > 104857600
              /\ ab._size > len(ab)
              /\ RAt(ab.mem, 0) = 7

\* C6: skip(n) returns the len() of before the call, increases len() by exactly n
\* and leaves every earlier byte as it was; and a byte written through atOfs()
\* into a reserved region is what buf() holds at that offset after any later
\* appends, reallocating or not.
C6_SkipReservesAndPatchStays ==
    /\ [][(abOps' # abOps /\ abLast'.op = "skip")
            => /\ abLast'.ret = len(ab)
               /\ len(ab') = len(ab) + abLast'.n
               /\ bufBytes(ab', len(ab)) = bufBytes(ab, len(ab))]_vars
    /\ [](\A q \in abPatches : RAt(ab.mem, q[1]) = q[2])

\* a byte patched into a reserved region, then an append that reallocated
C6_Witness == \E q \in abPatches :
                 /\ q[3] # ab._allocationAddress
                 /\ abLast.op \in {"appendBuf", "appendStr"}
                 /\ RAt(ab.mem, q[1]) = q[2]

\* C7: reset() sets len() to 0; a capacity above 128 MiB before the call is at most
\* 128 MiB after it, and a capacity of at most 128 MiB leaves the allocation (its
\* address, its size and its bytes) as it was.
C7_ResetShrinksAboveCap ==
    [][(abOps' # abOps /\ abLast'.op = "reset")
         => /\ len(ab') = 0
            /\ (ab._size > 134217728 => ab'._size <= 134217728)
            /\ (ab._size <= 134217728
                  => /\ ab'._size = ab._size
                     /\ ab'._allocationAddress = ab._allocationAddress
                     /\ ab'._data = ab._data
                     /\ ab'.mem = ab.mem)]_vars

\* a builder grown to 256 MiB was reset: it holds 128 MiB
C7_Witness == /\ abLast.op = "reset"
              /\ abLast.n = 268435456
              /\ ab._size = 134217728
              /\ len(ab) = 0

\* C8: buf() is a multiple of 8192 in every state: after construction, after
\* every growth and after a shrink in reset().
C8_BufAligned == buf(ab) % 8192 = 0

\* reset() shrank the builder into an allocation malloc() returned unaligned
C8_Witness == /\ abLast.op = "reset"
              /\ abLast.n > ab._size
              /\ ab._allocationAddress % 8192 # 0
              /\ buf(ab) > ab._allocationAddress

\* C9: appendStr fails when the string bytes plus the optional terminator byte
\* number more than BSONObjMaxUserSize, and a failed call leaves len() and the
\* buffer as they were.
C9_AppendStrFailsUnchanged ==
    [][(abOps' # abOps /\ abLast'.op = "appendStr")
         => /\ (abLast'.n > 16777216 => abLast'.threw)
            /\ (abLast'.threw => ab' = ab)]_vars

\* a string of BSONObjMaxUserSize bytes and its terminator refused by a builder
\* that holds bytes
C9_Witness == /\ abLast.op = "appendStr"
              /\ abLast.threw
              /\ abLast.n > BSONObjMaxUserSize
              /\ len(ab) > 0

(***************************************************************************)
(* Specifications                                                          *)
(***************************************************************************)
InitHdr == HdrInit /\ EntryIdle /\ SectIdle /\ AbIdle
NextHdr == CorruptMagic \/ CorruptTrailer \/ CorruptFileId \/ FlipVersionBit
SpecHdr == InitHdr /\ [][NextHdr]_vars

InitEntry == EntryInit /\ HdrIdle /\ SectIdle /\ AbIdle
NextEntry == setFileNo \/ setLocalDbContextBit \/ clearLocalDbContextBit
SpecEntry == InitEntry /\ [][NextEntry]_vars

InitSect == SectInit /\ HdrIdle /\ EntryIdle /\ AbIdle
NextSect == AppendBodyByte \/ ComputeFooter \/ PatchLen \/ CorruptSectByte
SpecSect == InitSect /\ [][NextSect]_vars

InitBuf == AbInit /\ HdrIdle /\ EntryIdle /\ SectIdle
NextBuf == \/ AppendNum \/ AppendBuf \/ AppendStruct \/ AppendStr
           \/ Skip \/ AtOfs \/ Reset
SpecBuf == InitBuf /\ [][NextBuf]_vars

====
